---- MODULE Spec2Model ----
(***************************************************************************)
(* A model of the marketing campaign processor: the aggregation functions  *)
(* of analysis.py (DataAnalyzer), the run of main.py / analysis.py         *)
(* (main, get_config, MarketingAnalyzer.run_analysis) and the synthetic    *)
(* data generator of data_handling.py (DataSimulator).                     *)
(*                                                                         *)
(* A pandas DataFrame is [columns : set of column names, rows : sequence   *)
(* of functions from the columns to values].  A pandas Series is a         *)
(* sequence of [key, value] entries in index order.  A float is an exact   *)
(* fraction [num, den]: den > 0 is a finite value in lowest terms,         *)
(* [1, 0] is +inf and [0, 0] is NaN (the model has no negative numbers).   *)
(* A Python str is the sequence of its code points.  A datetime is its day *)
(* number (days since 1970-01-01); a date read from a CSV file stays the   *)
(* str YYYY-MM-DD, held as the number YYYYMMDD.                            *)
(*                                                                         *)
(* Specifications: SpecAnalyzer (each aggregation called once on a frame), *)
(* SpecRepeat (the aggregations called repeatedly on one frame), SpecSim   *)
(* (generate, save and reload simulated data) and Spec (the run of main).  *)
(***************************************************************************)
EXTENDS Integers, Sequences, FiniteSets, TLC

VARIABLES
    pc,                   \* position of the run
    argv,                 \* the command line of main
    is_dir,               \* whether the data path typed by the operator is a directory
    data_files,           \* the *.csv files of the data folder: their contents
    render_fails,         \* the chart writes the environment will refuse
    config,               \* what get_config returned
    all_data,             \* the DataFrame handed to the aggregations
    performance_data,     \* outcome of analyze_campaign_performance
    platform_performance, \* outcome of analyze_platform_performance
    events,               \* the externally visible steps taken so far, in order
    exit_code,            \* the exit status of main (NotExited while running)
    sim,                  \* DataSimulator: arguments, random stream and result
    exception,            \* the exception propagating out of the failed step
    artifacts,            \* the chart files written to the output folder
    report,               \* what _print_top_campaigns logged: the N of its heading and its lines
    top_n                 \* the N the caller of the run wants reported (NotSet: none)

vars == <<pc, argv, is_dir, data_files, render_fails, config, all_data,
          performance_data, platform_performance, events, exit_code, sim,
          exception, artifacts, report, top_n>>

----------------------------------------------------------------------------
(* Bounds of the model.                                                    *)

MaxRows == 2
MaxSchemaRows == 1

----------------------------------------------------------------------------
(* Strings as code points, and their order (Python compares str values     *)
(* code point by code point; a proper prefix is smaller).                  *)

RECURSIVE StrLess(_, _)
StrLess(a, b) ==
    IF b = <<>> THEN FALSE
    ELSE IF a = <<>> THEN TRUE
    ELSE IF Head(a) # Head(b) THEN Head(a) < Head(b)
    ELSE StrLess(Tail(a), Tail(b))

StrA == <<65>>
StrB == <<66>>
Facebook == <<70, 97, 99, 101, 98, 111, 111, 107>>
Instagram == <<73, 110, 115, 116, 97, 103, 114, 97, 109>>

----------------------------------------------------------------------------
(* Floats.                                                                 *)

NaN == [num |-> 0, den |-> 0]
Inf == [num |-> 1, den |-> 0]

RECURSIVE GCD(_, _)
GCD(a, b) == IF b = 0 THEN a ELSE GCD(b, a % b)

ToFloat(n) == [num |-> n, den |-> 1]

IsNaN(x) == x.den = 0 /\ x.num = 0
IsFinite(x) == x.den > 0

\* x > y on floats; false whenever one side is NaN.
FloatGreater(x, y) ==
    /\ ~IsNaN(x)
    /\ ~IsNaN(y)
    /\ x.num * y.den > y.num * x.den

\* int / int on two pandas Series: true division, no exception on a zero
\* denominator (0/0 is NaN, n/0 is inf).
TrueDiv(a, b) ==
    IF b = 0 THEN (IF a = 0 THEN NaN ELSE Inf)
    ELSE [num |-> a \div GCD(a, b), den |-> b \div GCD(a, b)]

----------------------------------------------------------------------------
(* DataFrames and Series.                                                  *)

required_columns ==
    {"Campaign", "Revenue", "Platform", "Impressions", "Clicks", "Conversions",
     "Engagement_Rate"}

\* pd.DataFrame(): no columns, no rows.
EmptyDataFrame == [columns |-> {}, rows |-> <<>>]

\* DataFrame.empty: some axis has length 0.
IsEmpty(dataframe) == dataframe.columns = {} \/ dataframe.rows = <<>>

RECURSIVE SeqSum(_)
SeqSum(s) == IF s = <<>> THEN 0 ELSE Head(s) + SeqSum(Tail(s))

\* Less-than on the values of a key column: Date is a number (a day
\* number, or YYYYMMDD for a date str), the other key columns hold strings.
KeyLess(col, a, b) == IF col = "Date" THEN a < b ELSE StrLess(a, b)

\* Lexicographic less-than on key tuples, one component per column of by.
RECURSIVE TupleLess(_, _, _)
TupleLess(by, a, b) ==
    IF by = <<>> THEN FALSE
    ELSE IF Head(a) # Head(b) THEN KeyLess(Head(by), Head(a), Head(b))
    ELSE TupleLess(Tail(by), Tail(a), Tail(b))

KeyOf(row, by) == [i \in 1..Len(by) |-> row[by[i]]]

\* The index label of a group: the key itself when grouping by one column,
\* the tuple of keys otherwise.
IndexKey(by, key) == IF Len(by) = 1 THEN key[1] ELSE key

\* The group keys of groupby(by), ascending (groupby sorts its keys).
RECURSIVE SortedKeys(_, _)
SortedKeys(S, by) ==
    IF S = {} THEN <<>>
    ELSE LET m == CHOOSE x \in S : \A y \in S : ~TupleLess(by, y, x)
         IN  <<m>> \o SortedKeys(S \ {m}, by)

GroupKeys(dataframe, by) ==
    SortedKeys({KeyOf(dataframe.rows[i], by) : i \in 1..Len(dataframe.rows)}, by)

\* The values of column col in the rows of one group, in row order.
RECURSIVE GroupValues(_, _, _, _)
GroupValues(rows, by, key, col) ==
    IF rows = <<>> THEN <<>>
    ELSE (IF KeyOf(Head(rows), by) = key THEN <<Head(rows)[col]>> ELSE <<>>)
         \o GroupValues(Tail(rows), by, key, col)

\* dataframe.groupby(by)[col].sum(): one entry per group, in key order.
GroupBySum(dataframe, by, col) ==
    LET keys == GroupKeys(dataframe, by)
    IN  [i \in 1..Len(keys) |->
            [key |-> IndexKey(by, keys[i]),
             value |-> SeqSum(GroupValues(dataframe.rows, by, keys[i], col))]]

\* dataframe.groupby(by)[col].mean().
GroupByMean(dataframe, by, col) ==
    LET keys == GroupKeys(dataframe, by)
    IN  [i \in 1..Len(keys) |->
            LET vals == GroupValues(dataframe.rows, by, keys[i], col)
            IN  [key |-> IndexKey(by, keys[i]),
                 value |-> TrueDiv(SeqSum(vals), Len(vals))]]

\* A Series of sums seen as a Series of floats.
AsFloats(series) ==
    [i \in 1..Len(series) |->
        [key |-> series[i].key, value |-> ToFloat(series[i].value)]]

\* numerators / denominators: two Series of sums over the same groups,
\* divided entry by entry.
SeriesDiv(numerators, denominators) ==
    [i \in 1..Len(numerators) |->
        [key |-> numerators[i].key,
         value |-> TrueDiv(numerators[i].value, denominators[i].value)]]

\* Float addition and the mean of a Series of floats (mean skips NaN).
FloatAdd(x, y) ==
    IF IsNaN(x) \/ IsNaN(y) THEN NaN
    ELSE IF x.den = 0 \/ y.den = 0 THEN Inf
    ELSE TrueDiv(x.num * y.den + y.num * x.den, x.den * y.den)

RECURSIVE FloatSum(_)
FloatSum(s) == IF s = <<>> THEN ToFloat(0) ELSE FloatAdd(Head(s), FloatSum(Tail(s)))

FloatMean(s) ==
    LET kept == SelectSeq(s, LAMBDA x : ~IsNaN(x))
        total == FloatSum(kept)
    IN  IF kept = <<>> THEN NaN
        ELSE IF total.den = 0 THEN total
        ELSE TrueDiv(total.num, total.den * Len(kept))

\* The rows of one group, in row order.
GroupRows(rows, by, key) == SelectSeq(rows, LAMBDA r : KeyOf(r, by) = key)

\* The slip the ratio discipline guards against: the ratio is taken row
\* by row and the group's value is the mean of the row ratios.
GroupMeanOfRatios(dataframe, by, numerator, denominator) ==
    LET keys == GroupKeys(dataframe, by)
    IN  [i \in 1..Len(keys) |->
            LET rs == GroupRows(dataframe.rows, by, keys[i])
            IN  [key |-> IndexKey(by, keys[i]),
                 value |-> FloatMean([j \in 1..Len(rs) |->
                              TrueDiv(rs[j][numerator], rs[j][denominator])])]]

\* dataframe.groupby(by)[numerator].sum() / dataframe.groupby(by)[denominator].sum()
GroupRatio(dataframe, by, numerator, denominator) ==
    SeriesDiv(GroupBySum(dataframe, by, numerator),
              GroupBySum(dataframe, by, denominator))

\* series.sort_values(ascending=False): descending by value, NaN entries
\* last, entries of equal value in their original order (pandas reverses,
\* sorts ascending and reverses again; numpy sorts short arrays by insertion).
RECURSIVE InsertDescending(_, _)
InsertDescending(sorted, e) ==
    IF sorted = <<>> THEN <<e>>
    ELSE IF FloatGreater(e.value, Head(sorted).value)
            \/ (IsNaN(Head(sorted).value) /\ ~IsNaN(e.value))
         THEN <<e>> \o sorted
         ELSE <<Head(sorted)>> \o InsertDescending(Tail(sorted), e)

\* The slip of sorting without ascending=False: the entries come out in
\* ascending order.
SortValuesAscending(series) ==
    LET RECURSIVE Ins(_, _)
        Ins(sorted, e) ==
            IF sorted = <<>> THEN <<e>>
            ELSE IF FloatGreater(Head(sorted).value, e.value)
                    \/ (IsNaN(Head(sorted).value) /\ ~IsNaN(e.value))
                 THEN <<e>> \o sorted
                 ELSE <<Head(sorted)>> \o Ins(Tail(sorted), e)
        RECURSIVE Srt(_)
        Srt(t) == IF t = <<>> THEN <<>>
                  ELSE Ins(Srt(SubSeq(t, 1, Len(t) - 1)), t[Len(t)])
    IN  Srt(series)

RECURSIVE sort_values(_)
sort_values(series) ==
    IF series = <<>> THEN <<>>
    ELSE InsertDescending(sort_values(SubSeq(series, 1, Len(series) - 1)),
                          series[Len(series)])

----------------------------------------------------------------------------
(* Exceptions and outcomes of a call.                                      *)

NoException == [type |-> "", msg |-> "", names |-> {}]

\* raise ValueError(f"Missing required columns: {', '.join(missing)}"):
\* the message lists the elements of missing, each once.
MissingColumnsError(missing) ==
    [type |-> "ValueError", msg |-> "Missing required columns", names |-> missing]

\* What pandas raises for a groupby key or an aggregated column that the
\* DataFrame does not have.
KeyError(names) == [type |-> "KeyError", msg |-> "", names |-> names]

NoPerformanceData ==
    [revenue |-> <<>>, ctr |-> <<>>, conversion_rate |-> <<>>,
     engagement_by_platform |-> <<>>, impressions_by_platform |-> <<>>]

\* An outcome: status is "pending" (not called), "returned" or "raised";
\* grouped tells whether a groupby was executed during the call.
Pending(novalue) ==
    [status |-> "pending", raised |-> NoException, grouped |-> FALSE,
     value |-> novalue]
Returned(v) ==
    [status |-> "returned", raised |-> NoException, grouped |-> TRUE, value |-> v]
Raised(e, didgroup, novalue) ==
    [status |-> "raised", raised |-> e, grouped |-> didgroup, value |-> novalue]

----------------------------------------------------------------------------
(* DataAnalyzer.                                                           *)

\* The slip of comparing the columns for equality: an unknown column is
\* rejected too, and reported among the missing ones.
AnalyzeCampaignExactColumns(dataframe) ==
    IF required_columns \cup {"Date"} # dataframe.columns
    THEN Raised(MissingColumnsError(
                    (required_columns \ dataframe.columns)
                    \cup (dataframe.columns \ (required_columns \cup {"Date"}))),
                FALSE, NoPerformanceData)
    ELSE Returned(
        [revenue |->
            sort_values(AsFloats(GroupBySum(dataframe, <<"Campaign">>, "Revenue"))),
         ctr |->
            sort_values(GroupRatio(dataframe, <<"Campaign">>, "Clicks", "Impressions")),
         conversion_rate |->
            sort_values(GroupRatio(dataframe, <<"Campaign">>, "Conversions", "Clicks")),
         engagement_by_platform |->
            GroupByMean(dataframe, <<"Platform">>, "Engagement_Rate"),
         impressions_by_platform |->
            GroupBySum(dataframe, <<"Platform">>, "Impressions")])

\* The slip of refusing a DataFrame without rows inside the aggregation.
AnalyzeCampaignRefusingEmpty(dataframe) ==
    IF ~(required_columns \subseteq dataframe.columns)
    THEN Raised(MissingColumnsError(required_columns \ dataframe.columns),
                FALSE, NoPerformanceData)
    ELSE IF IsEmpty(dataframe)
    THEN Raised([type |-> "ValueError", msg |-> "empty", names |-> {}],
                FALSE, NoPerformanceData)
    ELSE Returned(
        [revenue |->
            sort_values(AsFloats(GroupBySum(dataframe, <<"Campaign">>, "Revenue"))),
         ctr |->
            sort_values(GroupRatio(dataframe, <<"Campaign">>, "Clicks", "Impressions")),
         conversion_rate |->
            sort_values(GroupRatio(dataframe, <<"Campaign">>, "Conversions", "Clicks")),
         engagement_by_platform |->
            GroupByMean(dataframe, <<"Platform">>, "Engagement_Rate"),
         impressions_by_platform |->
            GroupBySum(dataframe, <<"Platform">>, "Impressions")])

analyze_campaign_performance(dataframe) ==
    IF ~(required_columns \subseteq dataframe.columns)
    THEN Raised(MissingColumnsError(required_columns \ dataframe.columns),
                FALSE, NoPerformanceData)
    ELSE Returned(
        [revenue |->
            sort_values(AsFloats(GroupBySum(dataframe, <<"Campaign">>, "Revenue"))),
         ctr |->
            sort_values(GroupRatio(dataframe, <<"Campaign">>, "Clicks", "Impressions")),
         conversion_rate |->
            sort_values(GroupRatio(dataframe, <<"Campaign">>, "Conversions", "Clicks")),
         engagement_by_platform |->
            GroupByMean(dataframe, <<"Platform">>, "Engagement_Rate"),
         impressions_by_platform |->
            GroupBySum(dataframe, <<"Platform">>, "Impressions")])

\* The rows of daily_metrics: one per (Date, Platform) group in key order,
\* with the aggregated columns and the two derived ratios.
DailyMetricsRows(dataframe) ==
    LET by == <<"Date", "Platform">>
        keys == GroupKeys(dataframe, by)
    IN  [i \in 1..Len(keys) |->
            LET engagement == GroupValues(dataframe.rows, by, keys[i], "Engagement_Rate")
                impressions == SeqSum(GroupValues(dataframe.rows, by, keys[i], "Impressions"))
                clicks == SeqSum(GroupValues(dataframe.rows, by, keys[i], "Clicks"))
                conversions == SeqSum(GroupValues(dataframe.rows, by, keys[i], "Conversions"))
            IN  [Date |-> keys[i][1],
                 Platform |-> keys[i][2],
                 Engagement_Rate |-> TrueDiv(SeqSum(engagement), Len(engagement)),
                 Impressions |-> impressions,
                 Clicks |-> clicks,
                 Conversions |-> conversions,
                 CTR |-> TrueDiv(clicks, impressions),
                 Conversion_Rate |-> TrueDiv(conversions, clicks)]]

daily_metrics_columns ==
    {"Date", "Platform", "Engagement_Rate", "Impressions", "Clicks", "Conversions",
     "CTR", "Conversion_Rate"}

NoDailyMetrics == [columns |-> {}, rows |-> <<>>]

\* No check of the columns: a missing group key makes groupby raise
\* KeyError, a missing aggregated column makes agg raise KeyError.
analyze_platform_performance(dataframe) ==
    IF ~({"Date", "Platform"} \subseteq dataframe.columns)
    THEN Raised(KeyError(IF "Date" \notin dataframe.columns
                         THEN {"Date"} ELSE {"Platform"}), FALSE, NoDailyMetrics)
    ELSE IF ~({"Engagement_Rate", "Impressions", "Clicks", "Conversions"}
                \subseteq dataframe.columns)
    THEN Raised(KeyError({"Engagement_Rate", "Impressions", "Clicks", "Conversions"}
                            \ dataframe.columns), TRUE, NoDailyMetrics)
    ELSE Returned([columns |-> daily_metrics_columns,
                   rows |-> DailyMetricsRows(dataframe)])

----------------------------------------------------------------------------
(* Input DataFrames.                                                       *)

AllColumns == required_columns \cup {"Date"}
UnknownColumn == "Region"

\* Revenue is in whole currency units and Engagement_Rate in hundredths,
\* so that sums and means stay exact.
Metrics(impressions, clicks, conversions, revenue, engagement) ==
    [Impressions |-> impressions, Clicks |-> clicks, Conversions |-> conversions,
     Revenue |-> revenue, Engagement_Rate |-> engagement]

\* A row of the test fixture, a row with other ratios, a row with
\* conversions but neither impressions nor clicks, and a row with clicks
\* but no impressions.
MetricSamples ==
    {Metrics(1000, 50, 5, 100, 5),
     Metrics(100, 50, 50, 300, 15),
     Metrics(0, 0, 2, 100, 7),
     Metrics(0, 3, 1, 150, 2)}

Row(date, campaign, platform, m) ==
    [c \in AllColumns \cup {UnknownColumn} |->
        CASE c = "Date" -> date
          [] c = "Campaign" -> campaign
          [] c = "Platform" -> platform
          [] c = UnknownColumn -> StrA
          [] OTHER -> m[c]]

Project(row, columns) == [c \in columns |-> row[c]]

DataFrame(columns, fullrows) ==
    [columns |-> columns,
     rows |-> [i \in 1..Len(fullrows) |-> Project(fullrows[i], columns)]]

SeqsUpTo(S, n) == UNION {[1..k -> S] : k \in 0..n}

SampleRows ==
    {Row(d, c, p, m) : d \in {1, 2}, c \in {StrA, StrB},
                       p \in {Facebook, Instagram}, m \in MetricSamples}

SchemaRows ==
    {Row(1, c, p, Metrics(1000, 50, 5, 100, 5)) :
        c \in {StrA, StrB}, p \in {Facebook, Instagram}}

\* tests/test_all.py: ten days, campaigns A, B alternating.
test_dataframe ==
    DataFrame(AllColumns,
        [i \in 1..10 |->
            IF i % 2 = 1
            THEN Row(i, StrA, Facebook, Metrics(1000, 50, 5, 100, 5))
            ELSE Row(i, StrB, Instagram, Metrics(2000, 100, 10, 200, 10))])

\* DataFrames with every column, DataFrames with any set of columns
\* (some missing, an unknown one added), and the test fixture.
AnalyzerFrames ==
    {DataFrame(AllColumns, rows) : rows \in SeqsUpTo(SampleRows, MaxRows)}
    \cup {DataFrame(columns, rows) :
            columns \in SUBSET (AllColumns \cup {UnknownColumn}),
            rows \in SeqsUpTo(SchemaRows, MaxSchemaRows)}
    \cup {test_dataframe}

----------------------------------------------------------------------------
(* Values of the variables a specification does not use.                   *)

NotExited == -1
NoConfig == [data_folder |-> "", output_folder |-> "", is_dry_run |-> FALSE]
NotSet == 0
NoReport == [top_n |-> NotSet, lines |-> <<>>]
NoSim == [num_campaigns |-> 0, num_days |-> 0, stream |-> <<>>, data |-> EmptyDataFrame]

----------------------------------------------------------------------------
(* Direct calls of the two DataAnalyzer functions on one DataFrame.        *)

InitAnalyzer ==
    /\ pc = "caller"
    /\ all_data \in AnalyzerFrames
    /\ performance_data = Pending(NoPerformanceData)
    /\ platform_performance = Pending(NoDailyMetrics)
    /\ argv = <<>>
    /\ is_dir = FALSE
    /\ data_files = <<>>
    /\ render_fails = {}
    /\ config = NoConfig
    /\ events = <<>>
    /\ exit_code = NotExited
    /\ sim = NoSim
    /\ exception = NoException
    /\ artifacts = {}
    /\ report = NoReport
    /\ top_n = NotSet

CallCampaignPerformance ==
    /\ pc = "caller"
    /\ performance_data.status = "pending"
    /\ performance_data' = analyze_campaign_performance(all_data)
    /\ UNCHANGED <<pc, argv, is_dir, data_files, render_fails, config, all_data,
                   platform_performance, events, exit_code, sim, exception,
                   artifacts,
                   report, top_n>>

CallPlatformPerformance ==
    /\ pc = "caller"
    /\ platform_performance.status = "pending"
    /\ platform_performance' = analyze_platform_performance(all_data)
    /\ UNCHANGED <<pc, argv, is_dir, data_files, render_fails, config, all_data,
                   performance_data, events, exit_code, sim, exception,
                   artifacts,
                   report, top_n>>

NextAnalyzer == CallCampaignPerformance \/ CallPlatformPerformance

SpecAnalyzer == InitAnalyzer /\ [][NextAnalyzer]_vars

----------------------------------------------------------------------------
(* Properties of the DataAnalyzer functions (SpecAnalyzer).                *)

SevenRequiredFields ==
    {"Campaign", "Platform", "Impressions", "Clicks", "Conversions", "Revenue",
     "Engagement_Rate"}

EightFields == SevenRequiredFields \cup {"Date"}

IsSchemaError(outcome) ==
    /\ outcome.status = "raised"
    /\ outcome.raised.type = "ValueError"
    /\ outcome.raised.msg = "Missing required columns"

\* The sum of column col over the rows for which Match(row) holds, written
\* without the grouping operators of the model.
SumOver(rows, col, Match(_)) ==
    LET RECURSIVE Upto(_)
        Upto(n) == IF n = 0 THEN 0
                   ELSE Upto(n - 1) + (IF Match(rows[n]) THEN rows[n][col] ELSE 0)
    IN  Upto(Len(rows))

\* x is the float a / b, for b > 0.
IsQuotient(x, a, b) == x.den > 0 /\ x.num * b = a * x.den

Entries(series) == {series[i] : i \in 1..Len(series)}

\* C1: the campaign aggregation raises the schema error exactly when one of
\* its seven required fields is absent from the collection's fields, the
\* error names exactly the absent required fields, and a collection with
\* all of them is accepted whatever other fields it has.
C1_SchemaErrorNamesMissing ==
    performance_data.status # "pending" =>
        LET absent == SevenRequiredFields \ all_data.columns
        IN  /\ (performance_data.status = "raised") <=> (absent # {})
            /\ performance_data.status = "raised" =>
                  /\ IsSchemaError(performance_data)
                  /\ performance_data.raised.names = absent
            /\ absent = {} => performance_data.status = "returned"

C1_Witness ==
    /\ IsSchemaError(performance_data)
    /\ Cardinality(performance_data.raised.names) = 2
    /\ UnknownColumn \in all_data.columns

\* C2: every aggregation applied to a collection lacking one of the eight
\* fields (Date included) is rejected with the schema error, before any
\* grouping, without a result.
C2_EveryAggregationChecksSchema ==
    ~(EightFields \subseteq all_data.columns) =>
        /\ performance_data.status # "pending" =>
              /\ IsSchemaError(performance_data)
              /\ ~performance_data.grouped
              /\ performance_data.value = NoPerformanceData
        /\ platform_performance.status # "pending" =>
              /\ IsSchemaError(platform_performance)
              /\ ~platform_performance.grouped
              /\ platform_performance.value = NoDailyMetrics

\* C3: for a non-empty valid collection the revenue result has one entry per
\* distinct campaign, each the exact sum of the campaign's revenue, in
\* non-increasing order of that sum.
C3_RevenueSumsSortedDescending ==
    (performance_data.status = "returned" /\ all_data.rows # <<>>) =>
        LET revenue == performance_data.value.revenue
            campaigns == {all_data.rows[i]["Campaign"] : i \in 1..Len(all_data.rows)}
        IN  /\ Len(revenue) = Cardinality(campaigns)
            /\ {e.key : e \in Entries(revenue)} = campaigns
            /\ \A e \in Entries(revenue) :
                  e.value = ToFloat(SumOver(all_data.rows, "Revenue",
                                            LAMBDA r : r["Campaign"] = e.key))
            /\ \A i \in 1..(Len(revenue) - 1) :
                  revenue[i].value.num >= revenue[i + 1].value.num

\* The fixture of the tests: A = 500, B = 1000, B first.
C3_Witness ==
    /\ all_data = test_dataframe
    /\ performance_data.status = "returned"
    /\ performance_data.value.revenue =
          <<[key |-> StrB, value |-> ToFloat(1000)],
            [key |-> StrA, value |-> ToFloat(500)]>>

CampaignSum(col, c) ==
    SumOver(all_data.rows, col, LAMBDA r : r["Campaign"] = c)
DaySum(col, d, p) ==
    SumOver(all_data.rows, col, LAMBDA r : r["Date"] = d /\ r["Platform"] = p)

ValueAt(series, key) == (CHOOSE e \in Entries(series) : e.key = key).value

\* C4: in the campaign and in the daily aggregation, CTR is
\* sum(clicks) / sum(impressions) and the conversion rate is
\* sum(conversions) / sum(clicks) over the records of the group (the value a
\* mean of per-record ratios would give is not the one returned).
C4_RatioOfSums ==
    /\ performance_data.status = "returned" =>
          LET campaigns == {all_data.rows[i]["Campaign"] : i \in 1..Len(all_data.rows)}
              v == performance_data.value
          IN  /\ {e.key : e \in Entries(v.ctr)} = campaigns
              /\ {e.key : e \in Entries(v.conversion_rate)} = campaigns
              /\ \A c \in campaigns :
                    LET impressions == CampaignSum("Impressions", c)
                        clicks == CampaignSum("Clicks", c)
                        conversions == CampaignSum("Conversions", c)
                    IN  /\ impressions > 0 =>
                              IsQuotient(ValueAt(v.ctr, c), clicks, impressions)
                        /\ clicks > 0 =>
                              IsQuotient(ValueAt(v.conversion_rate, c), conversions, clicks)
    /\ platform_performance.status = "returned" =>
          \A i \in 1..Len(platform_performance.value.rows) :
              LET m == platform_performance.value.rows[i]
                  impressions == DaySum("Impressions", m.Date, m.Platform)
                  clicks == DaySum("Clicks", m.Date, m.Platform)
                  conversions == DaySum("Conversions", m.Date, m.Platform)
              IN  /\ impressions > 0 => IsQuotient(m.CTR, clicks, impressions)
                  /\ clicks > 0 => IsQuotient(m.Conversion_Rate, conversions, clicks)

\* Both aggregations returned for a group of two records with unequal
\* impressions, where the mean of the two record ratios is another value.
C4_Witness ==
    /\ performance_data.status = "returned"
    /\ platform_performance.status = "returned"
    /\ Len(all_data.rows) = 2
    /\ all_data.rows[1]["Campaign"] = all_data.rows[2]["Campaign"]
    /\ all_data.rows[1]["Date"] = all_data.rows[2]["Date"]
    /\ all_data.rows[1]["Platform"] = all_data.rows[2]["Platform"]
    /\ all_data.rows[1]["Impressions"] > 0
    /\ all_data.rows[2]["Impressions"] > 0
    /\ all_data.rows[1]["Impressions"] # all_data.rows[2]["Impressions"]
    /\ performance_data.value.ctr[1].value
          # GroupMeanOfRatios(all_data, <<"Campaign">>, "Clicks", "Impressions")[1].value
    /\ platform_performance.value.rows[1].CTR
          # GroupMeanOfRatios(all_data, <<"Campaign">>, "Clicks", "Impressions")[1].value

\* C5: a group whose summed denominator is zero gets the not-a-number
\* marker as its ratio, whether its summed numerator is zero or positive,
\* and the aggregation does not raise.
C5_ZeroDenominatorIsNaN ==
    /\ (EightFields \subseteq all_data.columns) =>
          /\ performance_data.status \in {"pending", "returned"}
          /\ platform_performance.status \in {"pending", "returned"}
    /\ performance_data.status = "returned" =>
          \A i \in 1..Len(all_data.rows) :
              LET c == all_data.rows[i]["Campaign"]
                  v == performance_data.value
              IN  /\ CampaignSum("Impressions", c) = 0
                        => ValueAt(v.ctr, c) = NaN
                  /\ CampaignSum("Clicks", c) = 0
                        => ValueAt(v.conversion_rate, c) = NaN
    /\ platform_performance.status = "returned" =>
          \A i \in 1..Len(platform_performance.value.rows) :
              LET m == platform_performance.value.rows[i]
              IN  /\ m.Impressions = 0 => m.CTR = NaN
                  /\ m.Clicks = 0 => m.Conversion_Rate = NaN

\* C6: a collection with zero rows and the full schema is accepted by the
\* aggregations, and each of the three (campaign, platform, daily) returns
\* an empty output.
C6_EmptyValidCollection ==
    (all_data.rows = <<>> /\ EightFields \subseteq all_data.columns) =>
        /\ performance_data.status # "pending" =>
              /\ performance_data.status = "returned"
              /\ performance_data.value = NoPerformanceData
        /\ platform_performance.status # "pending" =>
              /\ platform_performance.status = "returned"
              /\ platform_performance.value.rows = <<>>

C6_Witness ==
    /\ all_data.rows = <<>>
    /\ EightFields \subseteq all_data.columns
    /\ performance_data.status = "returned"
    /\ platform_performance.status = "returned"

----------------------------------------------------------------------------
(* DataSimulator.  The random module is a stream of draws in 0..9 that the *)
(* calls consume in order; a draw d selects element d + 1 of a ten-element *)
(* list, and the value a + (b - a) * d / 9 of a range a..b.                *)

MaxCampaigns == 3
MaxDays == 3

RandomStreams == {<<0>>, <<9>>, <<0, 9, 4>>, <<7, 2>>, <<5, 5, 1, 8, 3>>}

Draw(stream, k) == stream[((k - 1) % Len(stream)) + 1]

choice(list, d) == list[(d % Len(list)) + 1]
randint(a, b, d) == a + ((b - a) * d) \div 9

\* Bold, Smart, Vibrant, Sleek, Dynamic, Innovative, Stellar, Radiant, Agile, Zen
adjectives ==
    <<<<66, 111, 108, 100>>,
      <<83, 109, 97, 114, 116>>,
      <<86, 105, 98, 114, 97, 110, 116>>,
      <<83, 108, 101, 101, 107>>,
      <<68, 121, 110, 97, 109, 105, 99>>,
      <<73, 110, 110, 111, 118, 97, 116, 105, 118, 101>>,
      <<83, 116, 101, 108, 108, 97, 114>>,
      <<82, 97, 100, 105, 97, 110, 116>>,
      <<65, 103, 105, 108, 101>>,
      <<90, 101, 110>>>>

\* Vision, Quest, Journey, Horizon, Leap, Spark, Wave, Pulse, Orbit, Nexus
nouns ==
    <<<<86, 105, 115, 105, 111, 110>>,
      <<81, 117, 101, 115, 116>>,
      <<74, 111, 117, 114, 110, 101, 121>>,
      <<72, 111, 114, 105, 122, 111, 110>>,
      <<76, 101, 97, 112>>,
      <<83, 112, 97, 114, 107>>,
      <<87, 97, 118, 101>>,
      <<80, 117, 108, 115, 101>>,
      <<79, 114, 98, 105, 116>>,
      <<78, 101, 120, 117, 115>>>>

Space == <<32>>

\* f"{i:03d}": the decimal digits of i, zero-padded to three.
RECURSIVE Digits(_)
Digits(i) == IF i < 10 THEN <<48 + i>> ELSE Digits(i \div 10) \o <<48 + (i % 10)>>

Format03d(i) ==
    LET d == Digits(i)
    IN  IF Len(d) >= 3 THEN d ELSE [k \in 1..(3 - Len(d)) |-> 48] \o d

\* The slip of leaving the running number out of the name.
CampaignNamesWithoutNumber(num_campaigns, stream) ==
    [i \in 1..num_campaigns |->
        choice(adjectives, Draw(stream, 2 * i - 1)) \o Space
            \o choice(nouns, Draw(stream, 2 * i))]

generate_campaign_names(num_campaigns, stream) ==
    [i \in 1..num_campaigns |->
        choice(adjectives, Draw(stream, 2 * i - 1)) \o Space
            \o choice(nouns, Draw(stream, 2 * i)) \o Space \o Format03d(i)]

platforms == <<Facebook, Instagram>>

\* datetime(2024, 1, 1) as a day number (days since 1970-01-01).
start_date == 19723

\* The records in the order of the three nested loops; record number r
\* (from 0) consumes the five draws after the names' draws and those of
\* the records before it, in the order the dict literal is evaluated.
generate_simulated_data(num_campaigns, num_days, stream) ==
    LET campaigns == generate_campaign_names(num_campaigns, stream)
        n == num_campaigns * Len(platforms) * num_days
        record(r) ==
            LET campaign == campaigns[(r \div (Len(platforms) * num_days)) + 1]
                platform == platforms[((r \div num_days) % Len(platforms)) + 1]
                day == r % num_days
                first == 2 * num_campaigns + 5 * r
            IN  [Date |-> start_date + day,
                 Campaign |-> campaign,
                 Platform |-> platform,
                 Engagement_Rate |-> randint(1, 15, Draw(stream, first + 1)),
                 Impressions |-> randint(10000, 1000000, Draw(stream, first + 2)),
                 Clicks |-> randint(100, 10000, Draw(stream, first + 3)),
                 Conversions |-> randint(10, 1000, Draw(stream, first + 4)),
                 Revenue |-> randint(1000, 10000, Draw(stream, first + 5))]
    IN  IF n = 0 THEN EmptyDataFrame
        ELSE [columns |-> AllColumns, rows |-> [k \in 1..n |-> record(k - 1)]]

----------------------------------------------------------------------------
(* CSV files.  A file is its header (the column names, in order) and its   *)
(* data lines (text, the cells joined by commas).  The values written are  *)
(* numbers, dates and names without comma, quote or line break, so no cell *)
(* is quoted.                                                              *)

Comma == <<44>>
Hyphen == <<45>>

\* The columns in the order of the dict literal of generate_simulated_data.
column_order ==
    <<"Date", "Campaign", "Platform", "Engagement_Rate", "Impressions",
      "Clicks", "Conversions", "Revenue">>

\* The decimal digits of i, zero-padded to width.
ZeroPad(i, width) ==
    LET d == Digits(i)
    IN  IF Len(d) >= width THEN d ELSE [k \in 1..(width - Len(d)) |-> 48] \o d

\* The calendar date of a day number (days since 1970-01-01), proleptic
\* Gregorian, as datetime keeps it.
civil_from_days(days) ==
    LET z == days + 719468
        era == z \div 146097
        doe == z - era * 146097
        yoe == (doe - doe \div 1460 + doe \div 36524 - doe \div 146096) \div 365
        doy == doe - (365 * yoe + yoe \div 4 - yoe \div 100)
        mp == (5 * doy + 2) \div 153
        d == doy - (153 * mp + 2) \div 5 + 1
        m == IF mp < 10 THEN mp + 3 ELSE mp - 9
        y == yoe + era * 400 + (IF m <= 2 THEN 1 ELSE 0)
    IN  [year |-> y, month |-> m, day |-> d]

\* A datetime at midnight is written as YYYY-MM-DD.
isoformat(days) ==
    LET date == civil_from_days(days)
    IN  ZeroPad(date.year, 4) \o Hyphen \o ZeroPad(date.month, 2)
            \o Hyphen \o ZeroPad(date.day, 2)

\* The text of one cell: the Date column holds datetimes, Campaign and
\* Platform strings, the other columns numbers.
format_cell(column, value) ==
    CASE column = "Date" -> isoformat(value)
      [] column \in {"Campaign", "Platform"} -> value
      [] OTHER -> Digits(value)

RECURSIVE Join(_, _)
Join(cells, sep) ==
    IF cells = <<>> THEN <<>>
    ELSE IF Len(cells) = 1 THEN cells[1]
    ELSE cells[1] \o sep \o Join(Tail(cells), sep)

\* The fields of a line between the separators.
RECURSIVE Split(_, _)
Split(text, sep) ==
    IF \A i \in 1..Len(text) : <<text[i]>> # sep THEN <<text>>
    ELSE LET k == CHOOSE i \in 1..Len(text) :
                      /\ <<text[i]>> = sep
                      /\ \A j \in 1..(i - 1) : <<text[j]>> # sep
         IN  <<SubSeq(text, 1, k - 1)>> \o Split(SubSeq(text, k + 1, Len(text)), sep)

IsDigit(ch) == ch \in 48..57

RECURSIVE DecimalValue(_)
DecimalValue(text) ==
    IF text = <<>> THEN 0
    ELSE 10 * DecimalValue(SubSeq(text, 1, Len(text) - 1)) + (text[Len(text)] - 48)

IsNumberText(text) == text # <<>> /\ \A i \in 1..Len(text) : IsDigit(text[i])

IsDateText(text) ==
    /\ Len(text) = 10
    /\ \A i \in 1..10 : IF i \in {5, 8} THEN <<text[i]>> = Hyphen ELSE IsDigit(text[i])

\* read_csv infers the type of a cell: digits are an integer, anything else
\* stays a str (no parse_dates, so a date stays the str YYYY-MM-DD).  A
\* date str is held as the number YYYYMMDD: equal strs are equal numbers,
\* and the order of the strs is the order of the numbers.
parse_cell(text) ==
    IF IsNumberText(text) THEN DecimalValue(text)
    ELSE IF IsDateText(text)
    THEN DecimalValue(SubSeq(text, 1, 4) \o SubSeq(text, 6, 7) \o SubSeq(text, 9, 10))
    ELSE text

\* The cells of the header and of the rows, without the index.
csv_header(data) == SelectSeq(column_order, LAMBDA c : c \in data.columns)
csv_lines(data) ==
    LET header == csv_header(data)
    IN  [i \in 1..Len(data.rows) |->
            Join([k \in 1..Len(header) |-> format_cell(header[k], data.rows[i][header[k]])],
                 Comma)]

\* The slip of data.to_csv(file_path): the index is written as a first
\* column without a name.
ToCsvWithIndex(data) ==
    [header |-> <<"">> \o csv_header(data),
     lines |-> [i \in 1..Len(data.rows) |->
                   Join(<<Digits(i - 1), csv_lines(data)[i]>>, Comma)]]

\* data.to_csv(file_path, index=False).  A frame without columns leaves a
\* file with an empty header line.
to_csv(data) == [header |-> csv_header(data), lines |-> csv_lines(data)]

\* A file of the data folder that read_csv refuses: an empty file.
Unreadable == [header |-> <<>>, lines |-> <<>>]
\* A file of the data folder with the contents of a frame.
CsvFile(frame) == to_csv(frame)

NoColumnsToParse ==
    [type |-> "EmptyDataError", msg |-> "No columns to parse from file",
     names |-> {}]

\* pd.read_csv(file_path): the first line names the columns (a column
\* without a name becomes Unnamed: k), blank lines are skipped, every other
\* line is a row; a file without a header has no columns to parse.
read_csv(file) ==
    IF file.header = <<>> THEN Raised(NoColumnsToParse, FALSE, EmptyDataFrame)
    ELSE LET name(k) == IF file.header[k] = "" THEN "Unnamed: " \o ToString(k - 1)
                        ELSE file.header[k]
             lines == SelectSeq(file.lines, LAMBDA line : line # <<>>)
             row(line) ==
                 LET cells == Split(line, Comma)
                 IN  [c \in {name(k) : k \in 1..Len(file.header)} |->
                         parse_cell(cells[CHOOSE k \in 1..Len(file.header) : name(k) = c])]
         IN  Returned([columns |-> {name(k) : k \in 1..Len(file.header)},
                       rows |-> [i \in 1..Len(lines) |-> row(lines[i])]])

\* The slip of load_data without its try/except: what read_csv raises
\* propagates to the caller.
LoadDataWithoutExcept(file) == read_csv(file)

\* CSVDataLoader.load_data: the frame read; when read_csv raises, whatever
\* the exception, it is caught and an empty DataFrame is returned.
load_data(file) ==
    LET outcome == read_csv(file)
    IN  IF outcome.status = "returned" THEN outcome ELSE Returned(EmptyDataFrame)

\* What a call of load_data does, in order: the read, and the error it logs
\* when the read raised.
load_data_events(file) ==
    <<"read_csv">> \o (IF read_csv(file).status = "raised"
                       THEN <<"logger.error:load_data">> ELSE <<>>)

InitSim ==
    /\ pc = "simulate"
    /\ sim \in [num_campaigns : 0..MaxCampaigns, num_days : 0..MaxDays,
                stream : RandomStreams, data : {EmptyDataFrame}]
    /\ all_data = EmptyDataFrame
    /\ performance_data = Pending(NoPerformanceData)
    /\ platform_performance = Pending(NoDailyMetrics)
    /\ argv = <<>>
    /\ is_dir = FALSE
    /\ data_files = <<>>
    /\ render_fails = {}
    /\ config = NoConfig
    /\ events = <<>>
    /\ exit_code = NotExited
    /\ exception = NoException
    /\ artifacts = {}
    /\ report = NoReport
    /\ top_n = NotSet

GenerateSimulatedData ==
    /\ pc = "simulate"
    /\ sim' = [sim EXCEPT !.data =
                  generate_simulated_data(sim.num_campaigns, sim.num_days, sim.stream)]
    /\ pc' = "generated"
    /\ UNCHANGED <<argv, is_dir, data_files, render_fails, config, all_data,
                   performance_data, platform_performance, events, exit_code,
                   exception, artifacts,
                   report, top_n>>

\* DataSimulator.save_simulated_data(sim.data, folder): the folder is made
\* and the frame written as simulated_data.csv in it.
SaveSimulatedData ==
    /\ pc = "generated"
    /\ data_files' = <<to_csv(sim.data)>>
    /\ events' = events \o <<"mkdir", "to_csv">>
    /\ pc' = "saved"
    /\ UNCHANGED <<argv, is_dir, render_fails, config, all_data,
                   performance_data, platform_performance, exit_code, sim,
                   exception, artifacts,
                   report, top_n>>

\* CSVDataLoader().load_data(folder / "simulated_data.csv").
LoadData ==
    /\ pc = "saved"
    /\ all_data' = load_data(data_files[1]).value
    /\ events' = events \o load_data_events(data_files[1])
    /\ pc' = "loaded"
    /\ UNCHANGED <<argv, is_dir, data_files, render_fails, config,
                   performance_data, platform_performance, exit_code, sim,
                   exception, artifacts,
                   report, top_n>>

NextSim == GenerateSimulatedData \/ SaveSimulatedData \/ LoadData

SpecSim == InitSim /\ [][NextSim]_vars

\* C10: generate_simulated_data returns exactly num_campaigns * 2 * num_days
\* records, one for every combination of generated campaign, platform in
\* {Facebook, Instagram} and day offset 0..num_days-1, none repeated.
C10_OneRecordPerCombination ==
    pc = "generated" =>
        LET rows == sim.data.rows
            triples == {<<rows[i]["Campaign"], rows[i]["Platform"], rows[i]["Date"]>> :
                            i \in 1..Len(rows)}
            campaigns == {rows[i]["Campaign"] : i \in 1..Len(rows)}
            days == {start_date + d : d \in 0..(sim.num_days - 1)}
        IN  /\ Len(rows) = sim.num_campaigns * 2 * sim.num_days
            /\ Cardinality(triples) = Len(rows)
            /\ sim.num_days > 0 => Cardinality(campaigns) = sim.num_campaigns
            /\ triples = campaigns \X {Facebook, Instagram} \X days

\* The case of the tests: 2 campaigns over 3 days give 12 records.
C10_Witness ==
    /\ pc = "generated"
    /\ sim.num_campaigns = 2
    /\ sim.num_days = 3
    /\ Len(sim.data.rows) = 12

\* C11: for every collection produced by generate_simulated_data, writing
\* it with save_simulated_data and reloading the written file through
\* CSVDataLoader.load_data yields a collection with the same number of rows
\* and the same set of field names as the generated one.
C11_RoundTripKeepsRowsAndFields ==
    pc = "loaded" =>
        /\ Len(all_data.rows) = Len(sim.data.rows)
        /\ all_data.columns = sim.data.columns

\* Twelve generated records written and read back: twelve rows with the
\* eight fields, the dates now the strs that were written.
C11_Witness ==
    /\ pc = "loaded"
    /\ Len(sim.data.rows) = 12
    /\ Len(data_files[1].lines) = 12
    /\ Len(all_data.rows) = 12
    /\ all_data.columns = AllColumns
    /\ sim.data.rows[1]["Date"] = start_date
    /\ all_data.rows[1]["Date"] = 20240101
    /\ all_data.rows[1]["Campaign"] = sim.data.rows[1]["Campaign"]
    /\ all_data.rows[12]["Revenue"] = sim.data.rows[12]["Revenue"]

----------------------------------------------------------------------------
(* The run of main: parse_arguments, get_config, MarketingAnalyzer and the *)
(* steps of run_analysis, one action per call, with the two handlers       *)
(* (run_analysis logs and re-raises, main logs and exits).                 *)

\* MaxFiles bounds the files of a data folder.  A dry run generates
\* num_campaigns=100 over num_days=30 (config.py); the model runs it with
\* DryRunCampaigns over DryRunDays.  MaxTopN bounds the N the caller of a
\* run may want reported.
MaxFiles == 2
MaxTopN == 1
DryRunCampaigns == 4
DryRunDays == 2

\* Exceptions of the run.
InvalidDirectoryError ==
    [type |-> "ValueError", msg |-> "Invalid sector coordinates", names |-> {}]
NoCsvFilesError ==
    [type |-> "FileNotFoundError", msg |-> "No CSV files found", names |-> {}]
EmptyDataError ==
    [type |-> "ValueError", msg |-> "Our intelligence network came up empty",
     names |-> {}]
WriteError(target) == [type |-> "OSError", msg |-> "", names |-> {target}]

\* pd.concat(dataframes, ignore_index=True): the union of the columns, the
\* rows in order, NaN where a frame lacks a column.
RECURSIVE concat(_)
concat(dataframes) ==
    IF dataframes = <<>> THEN EmptyDataFrame
    ELSE LET rest == concat(Tail(dataframes))
             first == Head(dataframes)
             columns == first.columns \cup rest.columns
             fill(rows, have) ==
                 [i \in 1..Len(rows) |->
                     [c \in columns |-> IF c \in have THEN rows[i][c] ELSE NaN]]
         IN  [columns |-> columns,
              rows |-> fill(first.rows, first.columns) \o fill(rest.rows, rest.columns)]

RECURSIVE Flatten(_)
Flatten(seqs) == IF seqs = <<>> THEN <<>> ELSE Head(seqs) \o Flatten(Tail(seqs))

\* MarketingAnalyzer._load_all_data: the files are listed, each is loaded
\* in turn, and the frames are concatenated; an exception out of a
\* load_data call would end it there.
load_all_data(files) ==
    IF files = <<>> THEN Raised(NoCsvFilesError, FALSE, EmptyDataFrame)
    ELSE LET loaded == [i \in 1..Len(files) |-> load_data(files[i])]
             raising == {i \in 1..Len(files) : loaded[i].status = "raised"}
         IN  IF raising = {}
             THEN Returned(concat([i \in 1..Len(files) |-> loaded[i].value]))
             ELSE Raised(loaded[CHOOSE i \in raising : \A j \in raising : i <= j].raised,
                         FALSE, EmptyDataFrame)

load_all_data_events(files) ==
    LET raising == {i \in 1..Len(files) : load_data(files[i]).status = "raised"}
        last == IF raising = {} THEN Len(files)
                ELSE CHOOSE i \in raising : \A j \in raising : i <= j
    IN  <<"glob">> \o Flatten([i \in 1..last |-> load_data_events(files[i])])

\* The slip of leaving out the check of all_data.empty.
EmptyCheckLeftOut(data) == NoException

\* run_analysis: if all_data.empty: raise ValueError(...).
empty_check(data) == IF IsEmpty(data) THEN EmptyDataError ELSE NoException

\* The slip of validating the data path after both prompts.
GetConfigValidatingLast(dry_run, dir_ok) ==
    IF dry_run
    THEN [events |-> <<"generate_simulated_data", "save_simulated_data",
                       "prompt:output_folder">>,
          raised |-> NoException,
          config |-> [data_folder |-> "simulated_data", output_folder |-> "output",
                      is_dry_run |-> TRUE]]
    ELSE IF ~dir_ok
    THEN [events |-> <<"prompt:data_folder", "prompt:output_folder", "is_dir">>,
          raised |-> InvalidDirectoryError,
          config |-> NoConfig]
    ELSE [events |-> <<"prompt:data_folder", "prompt:output_folder", "is_dir">>,
          raised |-> NoException,
          config |-> [data_folder |-> "data", output_folder |-> "output",
                      is_dry_run |-> FALSE]]

\* get_config: what it does in order, what it raises and what it returns.
get_config(dry_run, dir_ok) ==
    IF dry_run
    THEN [events |-> <<"generate_simulated_data", "save_simulated_data",
                       "prompt:output_folder">>,
          raised |-> NoException,
          config |-> [data_folder |-> "simulated_data", output_folder |-> "output",
                      is_dry_run |-> TRUE]]
    ELSE IF ~dir_ok
    THEN [events |-> <<"prompt:data_folder", "is_dir">>,
          raised |-> InvalidDirectoryError,
          config |-> NoConfig]
    ELSE [events |-> <<"prompt:data_folder", "is_dir", "prompt:output_folder">>,
          raised |-> NoException,
          config |-> [data_folder |-> "data", output_folder |-> "output",
                      is_dry_run |-> FALSE]]

\* The slip of a handler that logs and lets main return normally.
MainExceptWithoutExit(e) == 0

\* main: except Exception: logger.error(...); sys.exit(1).
main_except_status(e) == 1

\* argparse: no argument and --dry-run parse; -h/--help prints the help and
\* raises SystemExit(0); any other argument raises SystemExit(2).
\* SystemExit is not an Exception: main's handler does not catch it.
CommandLines == {<<>>, <<"--dry-run">>, <<"--help">>, <<"--verbose">>}
Parses(args) == args \in {<<>>, <<"--dry-run">>}
argparse_exit_status(args) == IF args = <<"--help">> THEN 0 ELSE 2

\* The files a data folder may hold: all of one schema, each unreadable,
\* without rows, or with one row.  The folder of a dry run, simulated_data,
\* holds only the file the run writes.
FolderSchemas == {AllColumns, AllColumns \ {"Revenue"}, AllColumns \ {"Date"}}
FileRows ==
    {Row(1, StrA, Facebook, Metrics(1000, 50, 5, 100, 5)),
     Row(2, StrB, Instagram, Metrics(0, 3, 1, 150, 2))}
FolderFiles(columns) ==
    {Unreadable, CsvFile(DataFrame(columns, <<>>))}
    \cup {CsvFile(DataFrame(columns, <<r>>)) : r \in FileRows}
Folders == UNION {SeqsUpTo(FolderFiles(columns), MaxFiles) : columns \in FolderSchemas}

\* The writes of the run that the environment may refuse.
Writes ==
    {"mkdir", "revenue_performance.png", "ctr_vs_conversion.png",
     "platform_comparison.png"}

Init ==
    /\ pc = "parse_arguments"
    /\ argv \in CommandLines
    /\ is_dir \in BOOLEAN
    /\ data_files \in Folders
    /\ (argv = <<>> /\ ~is_dir) => data_files = <<>>
    /\ argv = <<"--dry-run">> => data_files = <<>>
    /\ argv # <<>> => is_dir
    /\ render_fails \in {{}} \cup {{w} : w \in Writes}
    /\ sim \in [num_campaigns : {DryRunCampaigns}, num_days : {DryRunDays},
                stream : {<<0>>, <<0, 9, 4>>}, data : {EmptyDataFrame}]
    /\ config = NoConfig
    /\ all_data = EmptyDataFrame
    /\ performance_data = Pending(NoPerformanceData)
    /\ platform_performance = Pending(NoDailyMetrics)
    /\ events = <<>>
    /\ exit_code = NotExited
    /\ exception = NoException
    /\ artifacts = {}
    /\ report = NoReport
    /\ top_n \in {NotSet} \cup 1..MaxTopN
    /\ top_n # NotSet => Parses(argv)

\* main: args = parse_arguments().
ParseArguments ==
    /\ pc = "parse_arguments"
    /\ events' = Append(events, "parse_arguments")
    /\ IF Parses(argv)
       THEN pc' = "get_config" /\ UNCHANGED exit_code
       ELSE pc' = "exited" /\ exit_code' = argparse_exit_status(argv)
    /\ UNCHANGED <<argv, is_dir, data_files, render_fails, config, all_data,
                   performance_data, platform_performance, sim, exception,
                   artifacts,
                   report, top_n>>

\* main: config = get_config(args).  In a dry run the simulated data is
\* generated and saved as simulated_data.csv in the data folder first.
GetConfig ==
    /\ pc = "get_config"
    /\ LET dry_run == argv = <<"--dry-run">>
           got == get_config(dry_run, is_dir)
           data == generate_simulated_data(sim.num_campaigns, sim.num_days, sim.stream)
       IN  /\ events' = events \o got.events
           /\ config' = got.config
           /\ exception' = got.raised
           /\ pc' = IF got.raised = NoException THEN "MarketingAnalyzer"
                    ELSE "main_except"
           /\ IF dry_run
              THEN /\ sim' = [sim EXCEPT !.data = data]
                   /\ data_files' = Append(data_files, to_csv(data))
              ELSE UNCHANGED <<sim, data_files>>
    /\ UNCHANGED <<argv, is_dir, render_fails, all_data, performance_data,
                   platform_performance, exit_code, artifacts,
                   report, top_n>>

\* main: analyzer = MarketingAnalyzer(config).
ConstructAnalyzer ==
    /\ pc = "MarketingAnalyzer"
    /\ events' = Append(events, "MarketingAnalyzer")
    /\ pc' = "load_all_data"
    /\ UNCHANGED <<argv, is_dir, data_files, render_fails, config, all_data,
                   performance_data, platform_performance, exit_code, sim,
                   exception, artifacts,
                   report, top_n>>

\* run_analysis: all_data = self._load_all_data(), then the check of
\* all_data.empty.
LoadAllData ==
    /\ pc = "load_all_data"
    /\ LET loaded == load_all_data(data_files)
           failure == IF loaded.status = "raised" THEN loaded.raised
                      ELSE empty_check(loaded.value)
       IN  /\ events' = events \o load_all_data_events(data_files)
           /\ all_data' = loaded.value
           /\ exception' = failure
           /\ pc' = IF failure = NoException THEN "analyze_campaign_performance"
                    ELSE "run_analysis_except"
    /\ UNCHANGED <<argv, is_dir, data_files, render_fails, config,
                   performance_data, platform_performance, exit_code, sim,
                   artifacts,
                   report, top_n>>

\* run_analysis: performance_data = DataAnalyzer.analyze_campaign_performance(all_data).
AnalyzeCampaignPerformance ==
    /\ pc = "analyze_campaign_performance"
    /\ LET outcome == analyze_campaign_performance(all_data)
       IN  /\ performance_data' = outcome
           /\ exception' = outcome.raised
           /\ pc' = IF outcome.status = "returned" THEN "analyze_platform_performance"
                    ELSE "run_analysis_except"
    /\ events' = Append(events, "analyze_campaign_performance")
    /\ UNCHANGED <<argv, is_dir, data_files, render_fails, config, all_data,
                   platform_performance, exit_code, sim, artifacts,
                   report, top_n>>

\* The slip of leaving the daily-platform aggregation out of run_analysis.
PlatformPerformanceLeftOut ==
    /\ pc = "analyze_platform_performance"
    /\ pc' = "create_output_folder"
    /\ UNCHANGED <<argv, is_dir, data_files, render_fails, config, all_data,
                   performance_data, platform_performance, events, exit_code,
                   sim, exception, artifacts,
                   report, top_n>>

\* run_analysis: platform_performance = DataAnalyzer.analyze_platform_performance(all_data).
AnalyzePlatformPerformance ==
    /\ pc = "analyze_platform_performance"
    /\ LET outcome == analyze_platform_performance(all_data)
       IN  /\ platform_performance' = outcome
           /\ exception' = outcome.raised
           /\ pc' = IF outcome.status = "returned" THEN "create_output_folder"
                    ELSE "run_analysis_except"
    /\ events' = Append(events, "analyze_platform_performance")
    /\ UNCHANGED <<argv, is_dir, data_files, render_fails, config, all_data,
                   performance_data, exit_code, sim, artifacts,
                   report, top_n>>

\* run_analysis: self._create_output_folder().
CreateOutputFolder ==
    /\ pc = "create_output_folder"
    /\ events' = Append(events, "mkdir")
    /\ IF "mkdir" \in render_fails
       THEN exception' = WriteError("mkdir") /\ pc' = "run_analysis_except"
       ELSE UNCHANGED exception /\ pc' = "create_performance_charts"
    /\ UNCHANGED <<argv, is_dir, data_files, render_fails, config, all_data,
                   performance_data, platform_performance, exit_code, sim,
                   artifacts,
                   report, top_n>>

\* The chart files of create_performance_charts, in the order written.
performance_charts == <<"revenue_performance.png", "ctr_vs_conversion.png">>

\* ChartCreator.create_performance_charts: the revenue bar chart, then the
\* scatter chart; the first refused write raises and ends the call.
CreatePerformanceCharts ==
    /\ pc = "create_performance_charts"
    /\ LET refused == {i \in 1..Len(performance_charts) :
                          performance_charts[i] \in render_fails}
           attempted == IF refused = {} THEN Len(performance_charts)
                        ELSE CHOOSE i \in refused : \A j \in refused : i <= j
       IN  /\ events' = events \o <<"create_performance_charts">>
                           \o [i \in 1..attempted |->
                                  "savefig:" \o performance_charts[i]]
           /\ artifacts' = artifacts \cup
                 {performance_charts[i] : i \in (1..attempted) \ refused}
           /\ IF refused = {}
              THEN UNCHANGED exception /\ pc' = "create_platform_comparison"
              ELSE /\ exception' = WriteError(performance_charts[attempted])
                   /\ pc' = "run_analysis_except"
    /\ UNCHANGED <<argv, is_dir, data_files, render_fails, config, all_data,
                   performance_data, platform_performance, exit_code, sim,
                   report, top_n>>

\* The day number (days since 1970-01-01) of a calendar date.
days_from_civil(year, month, day) ==
    LET y == IF month <= 2 THEN year - 1 ELSE year
        era == y \div 400
        yoe == y - era * 400
        doy == (153 * (IF month > 2 THEN month - 3 ELSE month + 9) + 2) \div 5 + day - 1
        doe == yoe * 365 + yoe \div 4 - yoe \div 100 + doy
    IN  era * 146097 + doe - 719468

\* pd.to_datetime on a Date value read from a file: the str YYYY-MM-DD
\* (held as the number YYYYMMDD) becomes the datetime of that day (held as
\* its day number).
to_datetime(date) ==
    days_from_civil(date \div 10000, (date \div 100) % 100, date % 100)

\* ChartCreator.create_platform_comparison: the Date column of the frame it
\* is given is replaced by its datetime conversion, then the chart is drawn
\* and written.
CreatePlatformComparison ==
    /\ pc = "create_platform_comparison"
    /\ platform_performance' =
          [platform_performance EXCEPT !.value.rows =
              [i \in 1..Len(@) |-> [@[i] EXCEPT !.Date = to_datetime(@)]]]
    /\ events' = events \o <<"create_platform_comparison",
                            "savefig:platform_comparison.png">>
    /\ IF "platform_comparison.png" \in render_fails
       THEN /\ exception' = WriteError("platform_comparison.png")
            /\ pc' = "run_analysis_except"
            /\ UNCHANGED artifacts
       ELSE /\ artifacts' = artifacts \cup {"platform_comparison.png"}
            /\ pc' = "print_top_campaigns"
            /\ UNCHANGED exception
    /\ UNCHANGED <<argv, is_dir, data_files, render_fails, config, all_data,
                   performance_data, exit_code, sim,
                   report, top_n>>

\* The default of the parameter top_n of _print_top_campaigns.
DefaultTopN == 3

\* The slip of Series.tail for Series.head: the last n entries.
SeriesTail(series, n) ==
    IF n = 0 THEN <<>>
    ELSE IF n > 0
    THEN SubSeq(series, IF Len(series) > n THEN Len(series) - n + 1 ELSE 1, Len(series))
    ELSE SubSeq(series, IF Len(series) > -n THEN 1 - n ELSE Len(series) + 1, Len(series))

\* Series.head(n): the first n entries, all of them when there are fewer;
\* for a negative n all but the last -n.
head(series, n) ==
    IF n >= 0 THEN SubSeq(series, 1, IF Len(series) < n THEN Len(series) ELSE n)
    ELSE SubSeq(series, 1, IF Len(series) + n > 0 THEN Len(series) + n ELSE 0)

\* MarketingAnalyzer._print_top_campaigns(revenue_data, top_n): a heading
\* with top_n, then one line per entry of revenue_data.head(top_n).
print_top_campaigns(revenue_data, n) ==
    [top_n |-> n, lines |-> head(revenue_data, n)]

\* run_analysis: self._print_top_campaigns(performance_data['revenue']),
\* without a value for top_n.
PrintTopCampaigns ==
    /\ pc = "print_top_campaigns"
    /\ events' = Append(events, "print_top_campaigns")
    /\ report' = print_top_campaigns(performance_data.value.revenue, DefaultTopN)
    /\ pc' = "complete"
    /\ UNCHANGED <<argv, is_dir, data_files, render_fails, config, all_data,
                   performance_data, platform_performance, exit_code, sim,
                   exception, artifacts, top_n>>

\* The slip of a handler in run_analysis that logs and does not re-raise.
RunAnalysisExceptWithoutRaise ==
    /\ pc = "run_analysis_except"
    /\ events' = Append(events, "logger.error:run_analysis")
    /\ pc' = "complete"
    /\ UNCHANGED <<argv, is_dir, data_files, render_fails, config, all_data,
                   performance_data, platform_performance, exit_code, sim,
                   exception, artifacts,
                   report, top_n>>

\* run_analysis: except Exception as e: logger.error(...); raise.
RunAnalysisExcept ==
    /\ pc = "run_analysis_except"
    /\ events' = Append(events, "logger.error:run_analysis")
    /\ pc' = "main_except"
    /\ UNCHANGED <<argv, is_dir, data_files, render_fails, config, all_data,
                   performance_data, platform_performance, exit_code, sim,
                   exception, artifacts,
                   report, top_n>>

\* main: except Exception as e: logger.error(...); sys.exit(1).
MainExcept ==
    /\ pc = "main_except"
    /\ events' = Append(events, "logger.error:main")
    /\ exit_code' = main_except_status(exception)
    /\ pc' = "exited"
    /\ UNCHANGED <<argv, is_dir, data_files, render_fails, config, all_data,
                   performance_data, platform_performance, sim, exception,
                   artifacts,
                   report, top_n>>

\* main: run_analysis returned; the completion message is printed and main
\* returns, so the interpreter exits with status 0.
MainReturn ==
    /\ pc = "complete"
    /\ events' = Append(events, "print:complete")
    /\ exit_code' = 0
    /\ pc' = "exited"
    /\ UNCHANGED <<argv, is_dir, data_files, render_fails, config, all_data,
                   performance_data, platform_performance, sim, exception,
                   artifacts,
                   report, top_n>>

Next ==
    \/ ParseArguments
    \/ GetConfig
    \/ ConstructAnalyzer
    \/ LoadAllData
    \/ AnalyzeCampaignPerformance
    \/ AnalyzePlatformPerformance
    \/ CreateOutputFolder
    \/ CreatePerformanceCharts
    \/ CreatePlatformComparison
    \/ PrintTopCampaigns
    \/ RunAnalysisExcept
    \/ MainExcept
    \/ MainReturn

Spec == Init /\ [][Next]_vars

----------------------------------------------------------------------------
(* Properties of the run (Spec).                                           *)

Happened(e) == \E i \in 1..Len(events) : events[i] = e

ChartFiles ==
    {"revenue_performance.png", "ctr_vs_conversion.png", "platform_comparison.png"}

AggregationOrOutputEvents ==
    {"analyze_campaign_performance", "analyze_platform_performance", "mkdir",
     "create_performance_charts", "create_platform_comparison",
     "print_top_campaigns"} \cup {"savefig:" \o f : f \in ChartFiles}

\* The record source yields nothing: no file, or no file with a row.
NoDataFound == \A i \in 1..Len(data_files) : load_data(data_files[i]).value.rows = <<>>

IsSchemaFailure(e) == e.type = "ValueError" /\ e.msg = "Missing required columns"

\* C7: when the record source yields nothing (no CSV file, or zero rows in
\* all), run_analysis stops with a no-data failure before any aggregation
\* is called and before any output folder or chart is produced, and the
\* failure differs from the one raised for a schema mismatch.
C7_NoDataStopsBeforeAggregation ==
    (Happened("glob") /\ NoDataFound) =>
        /\ pc \in {"run_analysis_except", "main_except", "exited"}
        /\ exception = (IF data_files = <<>> THEN NoCsvFilesError ELSE EmptyDataError)
        /\ ~IsSchemaFailure(exception)
        /\ \A names \in SUBSET EightFields : exception # MissingColumnsError(names)
        /\ performance_data.status = "pending"
        /\ platform_performance.status = "pending"
        /\ \A e \in AggregationOrOutputEvents : ~Happened(e)
        /\ artifacts = {}

\* A folder whose files have the full header and no row, run to its end.
C7_Witness ==
    /\ pc = "exited"
    /\ data_files # <<>>
    /\ NoDataFound
    /\ \E i \in 1..Len(data_files) : load_data(data_files[i]).value.columns = AllColumns
    /\ exception = EmptyDataError

AllStepsCompleted ==
    /\ config # NoConfig
    /\ Happened("glob")
    /\ performance_data.status = "returned"
    /\ platform_performance.status = "returned"
    /\ artifacts = ChartFiles
    /\ Happened("print_top_campaigns")
    /\ exception = NoException

\* No step is taken twice (read_csv is taken once per file, and load_data
\* logs once per file it could not read).
NoStepRepeated ==
    \A i, j \in 1..Len(events) :
        (i < j /\ events[i] = events[j]) =>
            events[i] \in {"read_csv", "logger.error:load_data"}

\* C8 as stated: every execution of main ends with exit code 0 exactly when
\* configuration, loading, both aggregations, both rendering steps and the
\* report completed, and with a non-zero code, logged at the top level,
\* when one of them failed; no step is retried.
C8_ExitZeroIffAllStepsCompleted ==
    pc = "exited" =>
        /\ (exit_code = 0) <=> AllStepsCompleted
        /\ exception # NoException =>
              (exit_code # 0 /\ Happened("logger.error:main"))
        /\ NoStepRepeated

\* C8 amended: the same for every execution whose command line argparse
\* accepts; with --help main exits with 0 and with an unrecognised argument
\* with 2, before any step runs.
C8_ExitStatusOfParsedRuns ==
    pc = "exited" =>
        /\ Parses(argv) =>
              /\ (exit_code = 0) <=> AllStepsCompleted
              /\ exit_code \in {0, 1}
              /\ exit_code = 1 <=> exception # NoException
              /\ exit_code = 1 => Happened("logger.error:main")
        /\ ~Parses(argv) =>
              /\ exit_code = (IF argv = <<"--help">> THEN 0 ELSE 2)
              /\ events = <<"parse_arguments">>
              /\ config = NoConfig
        /\ NoStepRepeated

\* A run that failed while rendering, after both aggregations returned.
C8_Witness ==
    /\ pc = "exited"
    /\ Parses(argv)
    /\ exit_code = 1
    /\ performance_data.status = "returned"
    /\ platform_performance.status = "returned"
    /\ exception = WriteError("platform_comparison.png")

\* C9: without --dry-run, when the data path is not an existing directory,
\* get_config fails with the configuration error before any data access:
\* no prompt for the output folder, no AnalysisConfig, no MarketingAnalyzer,
\* no file listed or read, nothing written.
C9_InvalidDirectoryStopsFirst ==
    (argv = <<>> /\ ~is_dir /\ pc \notin {"parse_arguments", "get_config"}) =>
        /\ exception = InvalidDirectoryError
        /\ pc \in {"main_except", "exited"}
        /\ config = NoConfig
        /\ ~Happened("prompt:output_folder")
        /\ ~Happened("MarketingAnalyzer")
        /\ ~Happened("glob")
        /\ ~Happened("read_csv")
        /\ \A e \in AggregationOrOutputEvents : ~Happened(e)
        /\ all_data = EmptyDataFrame
        /\ artifacts = {}
        /\ pc = "exited" => exit_code = 1

C9_Witness ==
    /\ pc = "exited"
    /\ argv = <<>>
    /\ ~is_dir
    /\ Happened("prompt:data_folder")
    /\ exception = InvalidDirectoryError

\* run_analysis returned normally.
RunAnalysisReturned == pc = "complete" \/ Happened("print:complete")

\* The steps of run_analysis taken so far, in order.
RunAnalysisSteps ==
    SelectSeq(events, LAMBDA e :
        e \in {"glob", "analyze_campaign_performance",
               "analyze_platform_performance", "mkdir",
               "create_performance_charts", "create_platform_comparison",
               "print_top_campaigns"})

RenderingEvents ==
    {"create_performance_charts", "create_platform_comparison"}
    \cup {"savefig:" \o f : f \in ChartFiles}

Count(e) == Cardinality({i \in 1..Len(events) : events[i] = e})

\* C14: in every successful run of run_analysis the steps occur in the
\* order load, campaign aggregation, daily-platform aggregation,
\* output-folder creation, performance charts, platform comparison,
\* top-campaign report; each aggregation and each rendering operation is
\* invoked exactly once, and no rendering step starts before both
\* aggregations have returned.
C14_StepsInOrder ==
    /\ RunAnalysisReturned =>
          /\ RunAnalysisSteps =
                <<"glob", "analyze_campaign_performance",
                  "analyze_platform_performance", "mkdir",
                  "create_performance_charts", "create_platform_comparison",
                  "print_top_campaigns">>
          /\ \A e \in {"analyze_campaign_performance", "analyze_platform_performance",
                       "create_performance_charts", "create_platform_comparison"} :
                Count(e) = 1
    /\ \A i \in 1..Len(events) :
          events[i] \in RenderingEvents =>
              /\ \E j \in 1..(i - 1) : events[j] = "analyze_campaign_performance"
              /\ \E j \in 1..(i - 1) : events[j] = "analyze_platform_performance"
    /\ (\E e \in RenderingEvents : Happened(e)) =>
          /\ performance_data.status = "returned"
          /\ platform_performance.status = "returned"

\* A run over two files that returned from run_analysis with the three
\* charts written.
C14_Witness ==
    /\ pc = "complete"
    /\ Len(data_files) = 2
    /\ Count("read_csv") = 2
    /\ artifacts = ChartFiles
    /\ Happened("print_top_campaigns")
    /\ exception = NoException

\* The chart files in the order run_analysis has them written.
ChartOrder ==
    <<"revenue_performance.png", "ctr_vs_conversion.png", "platform_comparison.png">>

\* C15: if writing a chart fails, the run fails fast: the failure is
\* logged, no later chart and no top-campaign report is attempted, the
\* error propagates out of run_analysis (the run ends with status 1), and
\* the charts written before the failure are in place.
C15_ChartFailureFailsFast ==
    \A k \in 1..Len(ChartOrder) :
        (Happened("savefig:" \o ChartOrder[k]) /\ ChartOrder[k] \in render_fails) =>
            /\ exception = WriteError(ChartOrder[k])
            /\ pc \in {"run_analysis_except", "main_except", "exited"}
            /\ pc # "run_analysis_except" => Count("logger.error:run_analysis") = 1
            /\ pc = "exited" => (exit_code = 1 /\ Happened("logger.error:main"))
            /\ \A j \in (k + 1)..Len(ChartOrder) : ~Happened("savefig:" \o ChartOrder[j])
            /\ k < Len(ChartOrder) => ~Happened("create_platform_comparison")
            /\ ~Happened("print_top_campaigns")
            /\ ~Happened("print:complete")
            /\ artifacts = {ChartOrder[j] : j \in 1..(k - 1)}

\* The write of the second chart was refused: the run ended with status 1
\* and the first chart is in the output folder.
C15_Witness ==
    /\ pc = "exited"
    /\ render_fails = {"ctr_vs_conversion.png"}
    /\ Happened("savefig:ctr_vs_conversion.png")
    /\ artifacts = {"revenue_performance.png"}
    /\ exit_code = 1

\* The campaigns of the loaded records.
Campaigns == {all_data.rows[i]["Campaign"] : i \in 1..Len(all_data.rows)}

\* rep lists the n campaigns with the largest total revenue (all of them
\* when there are fewer), each with its total, largest first.
IsTopReport(rep, n) ==
    LET listed == {rep.lines[i].key : i \in 1..Len(rep.lines)}
    IN  /\ Len(rep.lines) = (IF Cardinality(Campaigns) < n
                             THEN Cardinality(Campaigns) ELSE n)
        /\ Cardinality(listed) = Len(rep.lines)
        /\ listed \subseteq Campaigns
        /\ \A i \in 1..Len(rep.lines) :
              rep.lines[i].value = ToFloat(CampaignSum("Revenue", rep.lines[i].key))
        /\ \A i \in 1..(Len(rep.lines) - 1) :
              rep.lines[i].value.num >= rep.lines[i + 1].value.num
        /\ \A c \in Campaigns \ listed : \A i \in 1..Len(rep.lines) :
              CampaignSum("Revenue", c) <= rep.lines[i].value.num

\* The N a run is to report according to its caller: 3 when not set.
RequestedTopN == IF top_n = NotSet THEN DefaultTopN ELSE top_n

\* C16 as stated: the report lists exactly min(N, number of campaigns)
\* campaigns, those with the largest total revenue, in non-increasing
\* order, where N is what the caller of the run set, and 3 when the caller
\* did not set it.
C16_ReportListsRequestedTopN ==
    Happened("print_top_campaigns") => IsTopReport(report, RequestedTopN)

\* C16 amended: given the revenue result and N >= 0, the report operation
\* lists exactly min(N, number of campaigns) campaigns, those with the
\* largest total revenue, in non-increasing order; run_analysis calls it
\* without N, so the report of every run is that of N = 3, whatever the
\* caller of the run wants.
C16_RunReportsTopThree ==
    /\ Happened("print_top_campaigns") =>
          (report.top_n = DefaultTopN /\ IsTopReport(report, DefaultTopN))
    /\ performance_data.status = "returned" =>
          \A n \in 0..(Len(performance_data.value.revenue) + 1) :
              IsTopReport(print_top_campaigns(performance_data.value.revenue, n), n)

\* A dry run over four campaigns: the three with the largest totals are
\* listed, one is not.
C16_Witness ==
    /\ pc = "complete"
    /\ Cardinality(Campaigns) = 4
    /\ Len(report.lines) = 3
    /\ report.lines[1].value.num > report.lines[3].value.num
    /\ \E c \in Campaigns : \A i \in 1..3 : report.lines[i].key # c

\* The files of the data folder that read_csv refuses.
FailedFiles == {i \in 1..Len(data_files) : read_csv(data_files[i]).status = "raised"}

\* The frames of the files that could be read, in the order of the files.
ReadableFrames ==
    LET RECURSIVE Upto(_)
        Upto(n) == IF n = 0 THEN <<>>
                   ELSE Upto(n - 1) \o (IF n \in FailedFiles THEN <<>>
                                        ELSE <<read_csv(data_files[n]).value>>)
    IN  Upto(Len(data_files))

C12_MetricsUnchangedAfterAggregation ==
    /\ performance_data.status = "returned" =>
          performance_data = analyze_campaign_performance(all_data)
    /\ platform_performance.status = "returned" =>
          platform_performance = analyze_platform_performance(all_data)

----------------------------------------------------------------------------
(* Repeated calls of the two aggregations on one DataFrame, in any order.  *)
(* events records every call: the frame before it, the frame after it and  *)
(* what it returned or raised.                                             *)

MaxCalls == 3

RepeatRows ==
    {Row(1, StrA, Facebook, Metrics(1000, 50, 5, 100, 5)),
     Row(1, StrB, Facebook, Metrics(0, 3, 1, 150, 2)),
     Row(2, StrA, Instagram, Metrics(100, 50, 50, 300, 15))}

RepeatFrames ==
    {DataFrame(columns, rows) :
        columns \in {AllColumns, AllColumns \ {"Date"}, AllColumns \ {"Revenue"}},
        rows \in SeqsUpTo(RepeatRows, MaxRows)}
    \cup {test_dataframe}

\* The slip of storing the ratio in the frame passed in
\* (dataframe['CTR'] = ...) instead of in the grouped result.
InputWithRatioColumn(dataframe) ==
    [columns |-> dataframe.columns \cup {"CTR"},
     rows |-> [i \in 1..Len(dataframe.rows) |->
                  [c \in dataframe.columns \cup {"CTR"} |->
                      IF c = "CTR" THEN NaN ELSE dataframe.rows[i][c]]]]

\* The frame passed to an aggregation as the call leaves it: groupby, sum,
\* mean, sort_values and reset_index build new objects, and the two
\* assignments of analyze_platform_performance go to daily_metrics.
input_after_call(dataframe) == dataframe

InitRepeat ==
    /\ pc = "calls"
    /\ all_data \in RepeatFrames
    /\ performance_data = Pending(NoPerformanceData)
    /\ platform_performance = Pending(NoDailyMetrics)
    /\ argv = <<>>
    /\ is_dir = FALSE
    /\ data_files = <<>>
    /\ render_fails = {}
    /\ config = NoConfig
    /\ events = <<>>
    /\ exit_code = NotExited
    /\ sim = NoSim
    /\ exception = NoException
    /\ artifacts = {}
    /\ report = NoReport
    /\ top_n = NotSet

\* DataAnalyzer.analyze_campaign_performance(all_data), once more.
RepeatCampaignPerformance ==
    /\ pc = "calls"
    /\ Len(events) < MaxCalls
    /\ LET outcome == analyze_campaign_performance(all_data)
       IN  /\ performance_data' = outcome
           /\ all_data' = input_after_call(all_data)
           /\ events' = Append(events,
                 [call |-> "analyze_campaign_performance", before |-> all_data,
                  after |-> input_after_call(all_data), status |-> outcome.status,
                  raised |-> outcome.raised, campaign |-> outcome.value,
                  daily |-> NoDailyMetrics])
    /\ UNCHANGED <<pc, argv, is_dir, data_files, render_fails, config,
                   platform_performance, exit_code, sim, exception, artifacts,
                   report, top_n>>

\* DataAnalyzer.analyze_platform_performance(all_data), once more.
RepeatPlatformPerformance ==
    /\ pc = "calls"
    /\ Len(events) < MaxCalls
    /\ LET outcome == analyze_platform_performance(all_data)
       IN  /\ platform_performance' = outcome
           /\ all_data' = input_after_call(all_data)
           /\ events' = Append(events,
                 [call |-> "analyze_platform_performance", before |-> all_data,
                  after |-> input_after_call(all_data), status |-> outcome.status,
                  raised |-> outcome.raised, campaign |-> NoPerformanceData,
                  daily |-> outcome.value])
    /\ UNCHANGED <<pc, argv, is_dir, data_files, render_fails, config,
                   performance_data, exit_code, sim, exception, artifacts,
                   report, top_n>>

NextRepeat == RepeatCampaignPerformance \/ RepeatPlatformPerformance

SpecRepeat == InitRepeat /\ [][NextRepeat]_vars

====
